---- MODULE Spec2Model ----
(***************************************************************************)
(* A model of ZodConfig (src/src/index.ts): the configuration engine that  *)
(* loads a source (object or file), overlays environment variables,        *)
(* validates the merge with the compiled schema, keeps the validated       *)
(* snapshot, dispatches listeners and reloads on a timer.                  *)
(*                                                                         *)
(* JavaScript values are modelled with their identity: objects live in a   *)
(* heap and are referred to by address, so that sharing between the engine *)
(* and its caller is something a check can observe.                        *)
(***************************************************************************)
EXTENDS Integers, Sequences, FiniteSets, TLC

\* ------------------------------------------------------------------ bounds
\* Number of heap cells (objects alive at the same time).
MaxAddr == 16
\* Total number of listener registrations the caller makes.
MaxListeners == 2
\* Number of asynchronous load calls that may be suspended at the same time.
MaxPending == 1
\* Number of listener registrations where only the timer is looked at.
MaxWatchers == 1
\* Number of listener registrations where their order is looked at.
MaxOrdered == 3

\* ------------------------------------------------------------------ values
Undef == [t |-> "undef"]
NaN == [t |-> "nan"]
Num(n) == [t |-> "num", n |-> n]
Str(s) == [t |-> "str", s |-> s]
\* a reference to the heap object at address a
Ref(a) == [t |-> "ref", a |-> a]
\* an object by value: f maps its keys to values
Obj(f) == [t |-> "obj", f |-> f]
Free == [t |-> "free"]
Addr == 1..MaxAddr

IsRef(v) == v.t = "ref"

\* The value v read deeply from heap h: references replaced by what they hold.
RECURSIVE Tree(_, _)
Tree(h, v) ==
    IF v.t = "ref"
    THEN Obj([k \in DOMAIN h[v.a].f |-> Tree(h, h[v.a].f[k])])
    ELSE v

\* The lowest free address of h (objects are created at fresh addresses).
NewAddr(h) ==
    CHOOSE a \in Addr : h[a] = Free /\ \A b \in 1..(a - 1) : h[b] # Free

\* A by-value object tr created in heap h out of fresh objects:
\* the new heap and the value (a reference, or the scalar itself).
RECURSIVE Alloc(_, _), AllocProps(_, _, _)
AllocProps(h, f, keys) ==
    IF keys = {}
    THEN [h |-> h, f |-> f]
    ELSE LET k == CHOOSE x \in keys : TRUE
             r == Alloc(h, f[k])
         IN  AllocProps(r.h, [f EXCEPT ![k] = r.v], keys \ {k})
Alloc(h, tr) ==
    IF tr.t # "obj"
    THEN [h |-> h, v |-> tr]
    ELSE LET a == NewAddr(h)
             r == AllocProps([h EXCEPT ![a] = Obj(tr.f)], tr.f, DOMAIN tr.f)
         IN  [h |-> [r.h EXCEPT ![a] = Obj(r.f)], v |-> Ref(a)]

\* structuredClone(v): a deep copy made of fresh objects.
structuredClone(h, v) == Alloc(h, Tree(h, v))

\* lodash.isequal: deep structural equality (NaN equals NaN).
isEqual(h, v, w) == Tree(h, v) = Tree(h, w)

\* The addresses a value refers to directly.
RefsOf(v) == IF v.t = "ref" THEN {v.a} ELSE {}
CellRefs(h, a) ==
    IF h[a].t = "obj"
    THEN UNION {RefsOf(h[a].f[k]) : k \in DOMAIN h[a].f}
    ELSE {}
RECURSIVE Reach(_, _)
Reach(h, as) ==
    LET more == as \cup UNION {CellRefs(h, a) : a \in as}
    IN  IF more = as THEN as ELSE Reach(h, more)

\* ------------------------------------------------------------------ strings
\* String.prototype.endsWith
endsWith(s, suffix) ==
    /\ Len(s) >= Len(suffix)
    /\ SubSeq(s, Len(s) - Len(suffix) + 1, Len(s)) = suffix

Digit(c) ==
    CASE c = "0" -> 0 [] c = "1" -> 1 [] c = "2" -> 2 [] c = "3" -> 3
      [] c = "4" -> 4 [] c = "5" -> 5 [] c = "6" -> 6 [] c = "7" -> 7
      [] c = "8" -> 8 [] c = "9" -> 9 [] OTHER -> -1
RECURSIVE Digits(_, _)
\* the decimal number written by the first n characters of s, -1 if none
Digits(s, n) ==
    IF n = 0 THEN 0
    ELSE LET d == Digit(SubSeq(s, n, n))
             r == Digits(s, n - 1)
         IN  IF d < 0 \/ r < 0 THEN -1 ELSE 10 * r + d
\* Number(v), as z.coerce.number() applies it to its input
NumberOf(v) ==
    CASE v.t = "num" -> v
      [] v.t = "str" ->
            IF v.s = "" THEN Num(0)
            ELSE IF Digits(v.s, Len(v.s)) < 0 THEN NaN
            ELSE Num(Digits(v.s, Len(v.s)))
      [] OTHER -> NaN

\* ------------------------------------------------------------------ schema
\* The schema the engine is constructed with:
\*   port: { schema: z.coerce.number(), env: 'PORT' }
\*   db:   { schema: z.object({ host: z.string() }) }
Fields == {"port", "db"}
\* Object.keys order of a validated configuration (the schema's key order)
KeyOrder == <<"port", "db">>
EnvNames == {"PORT", "db"}
\* the field's env binding, "" when it declares none
SchemaEnv(key) == IF key = "port" THEN "PORT" ELSE ""

Ok(v) == [ok |-> TRUE, v |-> v]
Invalid == [ok |-> FALSE, v |-> Undef]

\* z.coerce.number().safeParse(v): Number(v), NaN is rejected
zCoerceNumber(v) ==
    LET n == NumberOf(v) IN IF n.t = "num" THEN Ok(n) ELSE Invalid
\* z.string().safeParse(v)
zString(v) == IF v.t = "str" THEN Ok(v) ELSE Invalid
\* z.object({ host: z.string() }).safeParse(v): a new object with the known keys
zObjectDb(v) ==
    IF v.t = "obj" /\ "host" \in DOMAIN v.f /\ zString(v.f["host"]).ok
    THEN Ok(Obj([k \in {"host"} |-> zString(v.f[k]).v]))
    ELSE Invalid
\* the field's own schema applied to a by-value input
FieldParse(key, v) == IF key = "port" THEN zCoerceNumber(v) ELSE zObjectDb(v)

\* value of key k in the by-value object o, undefined when absent
Prop(o, k) == IF k \in DOMAIN o.f THEN o.f[k] ELSE Undef

\* _schema: which fields are required and which are declared .optional()
VARIABLE schema
\* the schema above, and the one with db: z.object({ ... }).optional()
RequiredSchema == [port |-> "required", db |-> "required"]
OptionalDbSchema == [port |-> "required", db |-> "optional"]

\* compiledSchema.safeParse(o): every field by its schema, unknown keys
\* stripped; an optional field absent from the input is absent from the output
compiledSchema(o) ==
    LET given == {k \in Fields : schema[k] = "required" \/ Prop(o, k) # Undef}
    IN  IF o.t = "obj" /\ \A k \in given : FieldParse(k, Prop(o, k)).ok
        THEN Ok(Obj([k \in given |-> FieldParse(k, Prop(o, k)).v]))
        ELSE Invalid

\* compiledEnvSchema.safeParse(o): only the fields with an env binding, each
\* optional; a key absent from the input is absent from the output
compiledEnvSchema(o) ==
    LET bound == {k \in Fields : SchemaEnv(k) # ""}
        given == {k \in bound : Prop(o, k) # Undef}
    IN  IF \A k \in given : FieldParse(k, o.f[k]).ok
        THEN Ok(Obj([k \in given |-> FieldParse(k, o.f[k]).v]))
        ELSE Invalid

\* { ...values, ...envVariables }
Spread(values, envVariables) ==
    Obj([k \in DOMAIN values.f \cup DOMAIN envVariables.f |->
            IF k \in DOMAIN envVariables.f THEN envVariables.f[k] ELSE values.f[k]])

\* ------------------------------------------------------------------ state
VARIABLES
    adapter,             \* _adapter: "null", "object", "json", "yaml" or "custom"
    objectOrFileRef,     \* _objectOrFileRef: Undef, a path or a reference
    currentConfigValue,  \* _currentConfigValue: Undef or a reference
    listenerMap,         \* field -> sequence of listeners, in registration order
    intervalCallback,    \* 0 (null) or the interval of the armed timer
    timers,              \* the runtime's active setInterval timers, by interval
    reloadIntervalMs,    \* the constructor's option, 0 when not given
    loadMethod,          \* _loadMethod: "null" or "loadSync"
    heap,                \* the objects, by address
    processEnv,          \* process.env: name -> Str or Undef
    fs,                  \* the files, by path
    configObject,        \* the caller's configuration object (a reference)
    held,                \* an object the caller has made and gives to set
    got,                 \* the object the caller got from its last get
    kept,                \* the object the caller got from the get before
    pending,             \* the asynchronous loads suspended at the adapter read
    calls,               \* the listener invocations of the last operation
    last,                \* the last operation and how it ended
    logger               \* the Logger: logMethod, logLevelMap, what log wrote last

vars == <<adapter, objectOrFileRef, currentConfigValue, listenerMap,
          intervalCallback, timers, reloadIntervalMs, loadMethod, heap, processEnv, fs,
          configObject, held, got, kept, pending, calls, last, logger, schema>>

\* ------------------------------------------------------------------ inputs
Ports == {3000, 3001}
Hosts == {"localhost", "remotehost"}
\* what the caller may write as port into its configuration object or a file
SourcePorts == {Num(n) : n \in Ports} \cup {Str("invalid")}
\* what the environment variable PORT may be set to
EnvValues == {Undef, Str(""), Str("3001"), Str("invalid")}
\* what set('port', v) is called with (all of type number)
SetPorts == {Num(n) : n \in Ports} \cup {NaN}
JsonPath == "config.json"
TextPath == "config.txt"
Paths == {JsonPath, TextPath}
Listeners == {"l1"}
\* two callbacks, to tell the order of invocations
OrderedListeners == {"l1", "l2"}
Intervals == {200}
\* a callback that only looks and one that throws
ThrowingListeners == {"l1", "boom"}
\* a callback that calls get on every field
ReadingListeners == {"reader"}
\* a callback that writes into the objects it is handed, and one that looks
MutatingListeners == {"mutator", "l1"}

\* a file: missing, or a text the decoder rejects or decodes to data
NoFile == [t |-> "nofile"]
Malformed == [t |-> "text", ok |-> FALSE]
Text(o) == [t |-> "text", ok |-> TRUE, data |-> o]
Config(p, h) == Obj([port |-> p, db |-> Obj([host |-> Str(h)])])
FileStates ==
    {NoFile, Malformed} \cup {Text(Config(p, "localhost")) : p \in SourcePorts}
ObjectSources == {"configObject"}
FunctionSources == {"function"}
PathSources == Paths

\* ------------------------------------------------------------------ logger
LogLevels == {"silent", "debug", "info", "error"}
\* three of the twelve events, one of each default tier
LogEvents == {"get", "load", "error"}
defaultLogLevels == [get |-> "debug", load |-> "info", error |-> "error"]
\* the option logger: false, true, or a callback of the caller
LoggerOptions == {"false", "true", "callback"}
\* the option logLevelMap: levels for some of the events
LogLevelMaps == UNION {[D -> LogLevels] : D \in SUBSET LogEvents}
NoOutput == [event |-> "", console |-> "none", callback |-> "none"]

\* new Logger({ logger, logLevelMap })
Logger(option, map) ==
    [logMethod |-> CASE option = "true" -> "console"
                     [] option = "callback" -> "callback"
                     [] OTHER -> "none",
     logLevelMap |-> [e \in LogEvents |->
                        IF e \in DOMAIN map THEN map[e] ELSE defaultLogLevels[e]],
     written |-> NoOutput]

\* the wrapper around console made for logger: true
consoleLogMethod(level) ==
    IF level = "silent" THEN "none" ELSE level

\* log(message, event): console is the console method the event reached,
\* callback the level the caller's callback was invoked with
log(L, event) ==
    LET logLevel == L.logLevelMap[event]
    IN  [L EXCEPT !.written =
            [event |-> event,
             console |-> IF L.logMethod = "console"
                         THEN consoleLogMethod(logLevel) ELSE "none",
             callback |-> IF L.logMethod = "callback" THEN logLevel ELSE "none"]]

\* ------------------------------------------------------------------ engine
\* The engine object during one call: its fields, the heap, what the call has
\* computed so far (locals) and the error it has thrown, "none" while running.
This ==
    [adapter |-> adapter, objectOrFileRef |-> objectOrFileRef,
     currentConfigValue |-> currentConfigValue, listenerMap |-> listenerMap,
     intervalCallback |-> intervalCallback, reloadIntervalMs |-> reloadIntervalMs,
     loadMethod |-> loadMethod, heap |-> heap, calls |-> <<>>,
     envVariables |-> Undef, rawConfig |-> Undef, ret |-> Undef,
     thrown |-> "none", timers |-> timers, logged |-> FALSE,
     unhandled |-> FALSE, seen |-> <<>>, invoked |-> <<>>,
     reads |-> <<>>, parses |-> <<>>]

Throw(E, err) == [E EXCEPT !.thrown = err]
\* this.logger.log(message, 'error')
logError(E) == [E EXCEPT !.logged = TRUE]
\* the throw sites that log the error first
ThrowLogged(E, err) == Throw(logError(E), err)

\* getEnvValues taking every variable that is set, the empty string included
getEnvValuesKeepingEmpty(env) ==
    LET set == {k \in Fields :
                    /\ SchemaEnv(k) # ""
                    /\ env[SchemaEnv(k)] # Undef}
    IN  Obj([k \in set |-> env[SchemaEnv(k)]])

\* getEnvValues: only bound fields whose variable is set and not empty
getEnvValues(env) ==
    LET set == {k \in Fields :
                    /\ SchemaEnv(k) # ""
                    /\ env[SchemaEnv(k)] # Undef
                    /\ env[SchemaEnv(k)] # Str("")}
    IN  Obj([k \in set |-> env[SchemaEnv(k)]])

\* parseEnvValues leaving out an overlay the validator rejects
parseEnvValuesDropsInvalid(E, env) ==
    LET r == compiledEnvSchema(getEnvValues(env))
    IN  [E EXCEPT !.envVariables = IF r.ok THEN r.v ELSE Obj(<<>>)]

\* parseEnvValues: compiledEnvSchema.parse(getEnvValues())
parseEnvValues(E, env) ==
    LET r == compiledEnvSchema(getEnvValues(env))
    IN  IF r.ok THEN [E EXCEPT !.envVariables = r.v] ELSE Throw(E, "ZodError")

\* setAdapter taking a path with an unknown suffix for JSON
setAdapterUnknownAsJson(E, a) ==
    LET E1 == IF a # "null" THEN [E EXCEPT !.adapter = a] ELSE E
        ref == E1.objectOrFileRef
    IN  IF E1.adapter # "null" THEN E1
        ELSE IF ref = Undef \/ ref = Str("") THEN ThrowLogged(E1, "NotLoadedError")
        ELSE IF ref.t = "str"
             THEN IF endsWith(ref.s, ".yaml") \/ endsWith(ref.s, ".yml")
                  THEN [E1 EXCEPT !.adapter = "yaml"]
                  ELSE [E1 EXCEPT !.adapter = "json"]
             ELSE [E1 EXCEPT !.adapter = "object"]

\* setAdapter selecting from the source reference also when an adapter is set
setAdapterReselects(E, a) ==
    LET E1 == IF a # "null" THEN [E EXCEPT !.adapter = a] ELSE E
        ref == E1.objectOrFileRef
    IN  IF a # "null" THEN E1
        ELSE IF ref = Undef \/ ref = Str("") THEN ThrowLogged(E1, "NotLoadedError")
        ELSE IF ref.t = "str"
             THEN IF endsWith(ref.s, ".json") THEN [E1 EXCEPT !.adapter = "json"]
                  ELSE IF endsWith(ref.s, ".yaml") \/ endsWith(ref.s, ".yml")
                       THEN [E1 EXCEPT !.adapter = "yaml"]
                       ELSE E1
             ELSE [E1 EXCEPT !.adapter = "object"]

\* setAdapter keeping an adapter that is set also against an argument
setAdapterKeepsFirst(E, a) ==
    LET E1 == IF a # "null" /\ E.adapter = "null" THEN [E EXCEPT !.adapter = a]
              ELSE E
        ref == E1.objectOrFileRef
    IN  IF E1.adapter # "null" THEN E1
        ELSE IF ref = Undef \/ ref = Str("") THEN ThrowLogged(E1, "NotLoadedError")
        ELSE IF ref.t = "str"
             THEN IF endsWith(ref.s, ".json") THEN [E1 EXCEPT !.adapter = "json"]
                  ELSE IF endsWith(ref.s, ".yaml") \/ endsWith(ref.s, ".yml")
                       THEN [E1 EXCEPT !.adapter = "yaml"]
                       ELSE E1
             ELSE [E1 EXCEPT !.adapter = "object"]

\* setAdapter(adapter?): a "null" argument stands for none
setAdapter(E, a) ==
    LET E1 == IF a # "null" THEN [E EXCEPT !.adapter = a] ELSE E
        ref == E1.objectOrFileRef
    IN  IF E1.adapter # "null" THEN E1
        ELSE IF ref = Undef \/ ref = Str("") THEN ThrowLogged(E1, "NotLoadedError")
        ELSE IF ref.t = "str"
             THEN LET E2 == IF endsWith(ref.s, ".json")
                            THEN [E1 EXCEPT !.adapter = "json"]
                            ELSE E1
                  IN  IF endsWith(ref.s, ".yaml") \/ endsWith(ref.s, ".yml")
                      THEN [E2 EXCEPT !.adapter = "yaml"]
                      ELSE E2
             ELSE [E1 EXCEPT !.adapter = "object"]

\* a source reference that is a function of the overlay:
\*   (env) => env.port === 3001 ? 'config.json' : obj
Fn(obj) == [t |-> "fn", obj |-> obj]
sourceFunction(fn, env) ==
    IF Prop(env, "port") = Num(3001) THEN Str(JsonPath) ELSE fn.obj

\* preLoad handing the function the variables as they are read, unvalidated
preLoadRawOverlay(E, param, env) ==
    LET E1 == parseEnvValues(E, env)
        raw == getEnvValues(env)
        E2 == IF param.t = "fn"
              THEN [E1 EXCEPT !.objectOrFileRef = sourceFunction(param, raw),
                              !.invoked = Append(@, raw)]
              ELSE [E1 EXCEPT !.objectOrFileRef = param]
    IN  IF E1.thrown # "none" THEN E1
        ELSE setAdapter([E2 EXCEPT !.loadMethod = "loadSync"], "null")

\* preLoad(objectOrFileRef)
preLoad(E, param, env) ==
    LET E1 == parseEnvValues(E, env)
        E2 == IF param.t = "fn"
              THEN [E1 EXCEPT !.objectOrFileRef =
                                  sourceFunction(param, E1.envVariables),
                              !.invoked = Append(@, E1.envVariables)]
              ELSE [E1 EXCEPT !.objectOrFileRef = param]
    IN  IF E1.thrown # "none" THEN E1
        ELSE setAdapter([E2 EXCEPT !.loadMethod = "loadSync"], "null")

\* the getter objectOrFileRef: a structuredClone of the stored reference
getObjectOrFileRef(E) ==
    IF E.objectOrFileRef = Undef \/ E.objectOrFileRef = Str("")
    THEN ThrowLogged(E, "NotLoadedError")
    ELSE LET c == structuredClone(E.heap, E.objectOrFileRef)
         IN  [E EXCEPT !.heap = c.h, !.ret = c.v]

\* a FileAdapter that takes a file it cannot read for an empty mapping
fileAdapterReadMissingAsEmpty(E, path, files) ==
    IF E.thrown # "none" THEN E
    ELSE IF path.s \notin DOMAIN files \/ files[path.s].t = "nofile"
         THEN [E EXCEPT !.rawConfig = Obj(<<>>)]
         ELSE IF ~files[path.s].ok THEN ThrowLogged(E, "ParseError")
              ELSE [E EXCEPT !.rawConfig = files[path.s].data]

\* FileAdapter: readFileSync/readFile and parseFile on the file as it is now;
\* reads and parses are the paths read and the paths whose content was
\* handed to parseFile
fileAdapterRead(E, path, files) ==
    IF E.thrown # "none" THEN E
    ELSE LET R == [E EXCEPT !.reads = Append(@, path.s)]
             P == [R EXCEPT !.parses = Append(@, path.s)]
         IN  IF path.s \notin DOMAIN files \/ files[path.s].t = "nofile"
             THEN ThrowLogged(R, "ReadError")
             ELSE IF ~files[path.s].ok THEN ThrowLogged(P, "ParseError")
                  ELSE [P EXCEPT !.rawConfig = files[path.s].data]

\* a file adapter that starts reading whatever reference it is given
adapterLoadReadingFirst(E) ==
    IF E.thrown # "none" THEN E
    ELSE IF E.adapter = "null" THEN ThrowLogged(E, "AdapterError")
    ELSE LET E1 == getObjectOrFileRef(E)
             arg == E1.ret
         IN  IF E1.thrown # "none" THEN E1
             ELSE CASE E1.adapter = "object" ->
                         IF arg.t # "ref" THEN ThrowLogged(E1, "AdapterError")
                         ELSE [E1 EXCEPT !.rawConfig = Tree(E1.heap, arg)]
                    [] E1.adapter = "custom" ->
                         [E1 EXCEPT !.rawConfig = Config(Num(3000), "localhost")]
                    [] OTHER ->
                         IF arg.t # "str"
                         THEN ThrowLogged([E1 EXCEPT !.reads = Append(@, "")],
                                          "ReadError")
                         ELSE E1

\* this.adapter.load(this.objectOrFileRef) up to the file read: the adapter
\* getter, the objectOrFileRef getter, the adapter's check of its argument.
\* The raw mapping is kept by value (compiledSchema.parse builds its result
\* out of new objects, so that the identity of the raw mapping is never seen).
adapterLoad(E) ==
    IF E.thrown # "none" THEN E
    ELSE IF E.adapter = "null" THEN ThrowLogged(E, "AdapterError")
    ELSE LET E1 == getObjectOrFileRef(E)
             arg == E1.ret
         IN  IF E1.thrown # "none" THEN E1
             ELSE CASE E1.adapter = "object" ->
                         IF arg.t # "ref" THEN ThrowLogged(E1, "AdapterError")
                         ELSE [E1 EXCEPT !.rawConfig = Tree(E1.heap, arg)]
                    [] E1.adapter = "custom" ->
                         [E1 EXCEPT !.rawConfig = Config(Num(3000), "localhost")]
                    [] OTHER ->
                         IF arg.t # "str" THEN ThrowLogged(E1, "AdapterError") ELSE E1

\* this.adapter.loadSync(this.objectOrFileRef)
adapterLoadSync(E, files) ==
    LET E1 == adapterLoad(E)
    IN  IF E1.thrown # "none" \/ E1.rawConfig # Undef THEN E1
        ELSE fileAdapterRead(E1, E1.ret, files)

\* this.intervalCallback = this.createReloadIntervalCallback(intervalMs): the
\* runtime has one more timer and the engine holds its handle
setInterval(E, intervalMs) ==
    [E EXCEPT !.intervalCallback = intervalMs, !.timers = Append(@, intervalMs)]

\* clearInterval(handle): the runtime drops that timer
clearInterval(E, handle) ==
    LET at == {i \in 1..Len(E.timers) : E.timers[i] = handle}
        i == CHOOSE x \in at : \A y \in at : x <= y
    IN  IF at = {} THEN E
        ELSE [E EXCEPT !.timers = SubSeq(@, 1, i - 1) \o SubSeq(@, i + 1, Len(@))]

\* startReloadInterval without its check for a running timer
startReloadIntervalAlways(E, intervalMs) ==
    IF intervalMs # 0 THEN setInterval(E, intervalMs)
    ELSE IF E.reloadIntervalMs # 0 THEN setInterval(E, E.reloadIntervalMs)
    ELSE E

\* startReloadInterval(intervalMs?): 0 stands for no argument
startReloadInterval(E, intervalMs) ==
    IF E.intervalCallback # 0 THEN E
    ELSE IF intervalMs # 0 THEN setInterval(E, intervalMs)
    ELSE IF E.reloadIntervalMs # 0 THEN setInterval(E, E.reloadIntervalMs)
    ELSE E

\* stopReloadInterval forgetting the handle without clearing the timer
stopReloadIntervalKeepsTimer(E) == [E EXCEPT !.intervalCallback = 0]

\* stopReloadInterval()
stopReloadInterval(E) ==
    IF E.intervalCallback # 0
    THEN [clearInterval(E, E.intervalCallback) EXCEPT !.intervalCallback = 0]
    ELSE E

\* get without the getter's check: undefined before the first load
getUnchecked(E, key) ==
    IF E.currentConfigValue = Undef THEN [E EXCEPT !.ret = Undef]
    ELSE LET c == structuredClone(E.heap, E.heap[E.currentConfigValue.a].f[key])
         IN  [E EXCEPT !.heap = c.h, !.ret = c.v]

\* get returning the stored value itself
getShared(E, key) ==
    IF E.currentConfigValue = Undef THEN ThrowLogged(E, "NotLoadedError")
    ELSE [E EXCEPT !.ret = E.heap[E.currentConfigValue.a].f[key]]

\* get(key)
get(E, key) ==
    IF E.currentConfigValue = Undef THEN ThrowLogged(E, "NotLoadedError")
    ELSE LET c == structuredClone(E.heap, E.heap[E.currentConfigValue.a].f[key])
         IN  [E EXCEPT !.heap = c.h, !.ret = c.v]

\* runListener calling the listeners of every key
runListenerOfEveryKey(E, key, newValue, oldValue) ==
    LET ls == E.listenerMap["port"] \o E.listenerMap["db"]
        made == [i \in 1..Len(ls) |->
                    [key |-> IF i <= Len(E.listenerMap["port"]) THEN "port" ELSE "db",
                     listener |-> ls[i],
                     new |-> Tree(E.heap, newValue),
                     old |-> Tree(E.heap, oldValue)]]
    IN  [E EXCEPT !.calls = E.calls \o made]

\* what a registered callback does when it is invoked with (newValue,
\* oldValue): every callback is recorded with the values as it receives them;
\* "boom" throws, "reader" calls get on every field, "mutator" writes into the
\* objects it was handed, any other callback only looks at its arguments
invokeListener(E, l, key, newValue, oldValue) ==
    LET E1 == [E EXCEPT !.calls = Append(@,
                   [key |-> key, listener |-> l,
                    new |-> Tree(E.heap, newValue),
                    old |-> Tree(E.heap, oldValue)])]
        write(h, v) == IF IsRef(v) THEN [h EXCEPT ![v.a].f["host"] = Str("changed")]
                       ELSE h
    IN  CASE l = "boom" -> Throw(E1, "ListenerError")
          [] l = "reader" ->
                LET p == get(E1, "port")
                    d == get(p, "db")
                IN  [d EXCEPT !.ret = E.ret,
                              !.seen = Append(@, [key |-> key,
                                  port |-> Tree(p.heap, p.ret),
                                  db |-> Tree(d.heap, d.ret)])]
          [] l = "mutator" ->
                [E1 EXCEPT !.heap = write(write(@, newValue), oldValue)]
          [] OTHER -> E1

\* forEach catching what a callback throws and going on with the next one
RECURSIVE forEachIsolating(_, _, _, _, _)
forEachIsolating(E, ls, key, newValue, oldValue) ==
    IF ls = <<>> THEN E
    ELSE forEachIsolating(
             [invokeListener(E, Head(ls), key, newValue, oldValue) EXCEPT !.thrown = "none"],
             Tail(ls), key, newValue, oldValue)

\* this.listenerMap[key]?.forEach((listener) => listener(newValue, oldValue)):
\* what a callback throws leaves forEach
RECURSIVE forEach(_, _, _, _, _)
forEach(E, ls, key, newValue, oldValue) ==
    IF ls = <<>> \/ E.thrown # "none" THEN E
    ELSE forEach(invokeListener(E, Head(ls), key, newValue, oldValue),
                 Tail(ls), key, newValue, oldValue)

\* runListener without the abort: a callback's exception is swallowed
runListenerIsolating(E, key, newValue, oldValue) ==
    forEachIsolating(E, E.listenerMap[key], key, newValue, oldValue)

\* runListener(key, newValue, oldValue): every listener of key, in order
runListener(E, key, newValue, oldValue) ==
    forEach(E, E.listenerMap[key], key, newValue, oldValue)

\* getChangedKeys comparing with === instead of isEqual
getChangedKeysByIdentity(h, oldConfig, newConfig) ==
    SelectSeq(KeyOrder,
        LAMBDA k : /\ k \in DOMAIN h[oldConfig.a].f
                   /\ h[oldConfig.a].f[k] #
                          (IF k \in DOMAIN h[newConfig.a].f
                           THEN h[newConfig.a].f[k] ELSE Undef))

\* getChangedKeys(oldConfig, newConfig): the keys of oldConfig whose values
\* are not isEqual, in Object.keys order
getChangedKeys(h, oldConfig, newConfig) ==
    SelectSeq(KeyOrder,
        LAMBDA k : /\ k \in DOMAIN h[oldConfig.a].f
                   /\ ~isEqual(h, h[oldConfig.a].f[k],
                               IF k \in DOMAIN h[newConfig.a].f
                               THEN h[newConfig.a].f[k] ELSE Undef))

RECURSIVE runListenersFor(_, _, _, _)
runListenersFor(E, changedKeys, newValues, oldValues) ==
    IF changedKeys = <<>> \/ E.thrown # "none" THEN E
    ELSE LET k == Head(changedKeys)
             value(o) == IF k \in DOMAIN E.heap[o.a].f THEN E.heap[o.a].f[k]
                         ELSE Undef
         IN  runListenersFor(
                 runListener(E, k, value(newValues), value(oldValues)),
                 Tail(changedKeys), newValues, oldValues)

\* runListeners taking every field of a first snapshot for changed
RECURSIVE runListenersOfFirst(_, _, _)
runListenersOfFirst(E, keys, newValues) ==
    IF keys = <<>> \/ E.thrown # "none" THEN E
    ELSE runListenersOfFirst(
             runListener(E, Head(keys), E.heap[newValues.a].f[Head(keys)], Undef),
             Tail(keys), newValues)
runListenersAlsoFirst(E, newValues, oldValues) ==
    IF oldValues = Undef THEN runListenersOfFirst(E, KeyOrder, newValues)
    ELSE runListenersFor(E, getChangedKeys(E.heap, oldValues, newValues),
                         newValues, oldValues)

\* runListeners(newValues, oldValues?)
runListeners(E, newValues, oldValues) ==
    IF oldValues = Undef THEN E
    ELSE runListenersFor(E, getChangedKeys(E.heap, oldValues, newValues),
                         newValues, oldValues)

\* the merge with the spread operands swapped: the source wins
mergeAndParseValuesSourceWins(envVariables, values) ==
    compiledSchema(Spread(envVariables, values))

\* mergeAndParseValues(envVariables, values)
mergeAndParseValues(envVariables, values) ==
    compiledSchema(Spread(values, envVariables))

\* postLoad storing the merged mapping before it is validated
postLoadStoresUnvalidated(E) ==
    IF E.thrown # "none" THEN E
    ELSE LET old == structuredClone(E.heap, E.currentConfigValue)
             merged == Spread(E.rawConfig, E.envVariables)
             parsed == mergeAndParseValues(E.envVariables, E.rawConfig)
             new == Alloc(old.h, IF parsed.ok THEN parsed.v ELSE merged)
             E1 == [E EXCEPT !.heap = new.h, !.currentConfigValue = new.v]
         IN  IF ~parsed.ok THEN Throw(E1, "ZodError")
             ELSE LET E2 == runListeners(E1, new.v, old.v)
                  IN  IF E2.thrown # "none" THEN E2
                      ELSE startReloadInterval(E2, 0)

\* postLoad running the listeners before it installs the new snapshot
postLoadDispatchingFirst(E) ==
    IF E.thrown # "none" THEN E
    ELSE LET old == structuredClone(E.heap, E.currentConfigValue)
             parsed == mergeAndParseValues(E.envVariables, E.rawConfig)
             new == Alloc(old.h, parsed.v)
             E1 == [E EXCEPT !.heap = new.h]
         IN  IF ~parsed.ok THEN Throw(E, "ZodError")
             ELSE LET E2 == runListeners(E1, new.v, old.v)
                  IN  IF E2.thrown # "none" THEN E2
                      ELSE startReloadInterval(
                               [E2 EXCEPT !.currentConfigValue = new.v], 0)

\* postLoad keeping the fields of the current snapshot over the loaded ones
postLoadKeepingCurrent(E) ==
    IF E.thrown # "none" THEN E
    ELSE LET old == structuredClone(E.heap, E.currentConfigValue)
             parsed == mergeAndParseValues(E.envVariables, E.rawConfig)
             new == Alloc(old.h, IF parsed.ok /\ E.currentConfigValue # Undef
                                 THEN Spread(parsed.v, Tree(E.heap, E.currentConfigValue))
                                 ELSE parsed.v)
             E1 == [E EXCEPT !.heap = new.h, !.currentConfigValue = new.v]
         IN  IF ~parsed.ok THEN Throw(E, "ZodError")
             ELSE LET E2 == runListeners(E1, new.v, old.v)
                  IN  IF E2.thrown # "none" THEN E2
                      ELSE startReloadInterval(E2, 0)

\* postLoad(envVariables, rawConfig)
postLoad(E) ==
    IF E.thrown # "none" THEN E
    ELSE LET old == structuredClone(E.heap, E.currentConfigValue)
             parsed == mergeAndParseValues(E.envVariables, E.rawConfig)
             new == Alloc(old.h, parsed.v)
             E1 == [E EXCEPT !.heap = new.h, !.currentConfigValue = new.v]
         IN  IF ~parsed.ok THEN Throw(E, "ZodError")
             ELSE LET E2 == runListeners(E1, new.v, old.v)
                  IN  IF E2.thrown # "none" THEN E2
                      ELSE startReloadInterval(E2, 0)

\* loadSync(objectOrFileRef)
loadSync(E, param, env, files) ==
    postLoad(adapterLoadSync(preLoad(E, param, env), files))

\* load recording itself as the method the timer is to reload with
loadAsLoadMethod(E, param, env) ==
    LET E1 == adapterLoad(preLoad(E, param, env))
    IN  IF E1.loadMethod = "null" THEN E1 ELSE [E1 EXCEPT !.loadMethod = "load"]

\* load(objectOrFileRef) up to its await: what the suspended call carries
load(E, param, env) == adapterLoad(preLoad(E, param, env))
Suspended(E) ==
    [envVariables |-> E.envVariables, rawConfig |-> E.rawConfig, path |-> E.ret]
\* load(objectOrFileRef) from its await on
loadResumed(E, p, files) ==
    LET E1 == [E EXCEPT !.envVariables = p.envVariables, !.rawConfig = p.rawConfig]
    IN  postLoad(IF p.rawConfig # Undef THEN E1
                 ELSE fileAdapterRead(E1, p.path, files))

\* set storing the caller's value itself
setShared(E, key, value) ==
    IF E.currentConfigValue = Undef THEN ThrowLogged(E, "NotLoadedError")
    ELSE LET cur == E.currentConfigValue.a
             old == structuredClone(E.heap, E.heap[cur].f[key])
             arg == structuredClone(old.h, value)
             E1 == [E EXCEPT !.heap = [arg.h EXCEPT ![cur].f[key] = value]]
         IN  runListener(E1, key, arg.v, old.v)

\* set dispatching only when the value changes
setIfChanged(E, key, value) ==
    IF E.currentConfigValue = Undef THEN ThrowLogged(E, "NotLoadedError")
    ELSE LET cur == E.currentConfigValue.a
             old == structuredClone(E.heap, E.heap[cur].f[key])
             copy == structuredClone(old.h, value)
             arg == structuredClone(copy.h, value)
             E1 == [E EXCEPT !.heap = [arg.h EXCEPT ![cur].f[key] = copy.v]]
         IN  IF isEqual(arg.h, arg.v, old.v) THEN E1
             ELSE runListener(E1, key, arg.v, old.v)

\* set(key, value)
set(E, key, value) ==
    IF E.currentConfigValue = Undef THEN ThrowLogged(E, "NotLoadedError")
    ELSE LET cur == E.currentConfigValue.a
             old == structuredClone(E.heap, E.heap[cur].f[key])
             copy == structuredClone(old.h, value)
             arg == structuredClone(copy.h, value)
             E1 == [E EXCEPT !.heap = [arg.h EXCEPT ![cur].f[key] = copy.v]]
         IN  runListener(E1, key, arg.v, old.v)

\* addListener registering a callback once per key
addListenerOnce(E, key, listener) ==
    IF \E i \in 1..Len(E.listenerMap[key]) : E.listenerMap[key][i] = listener
    THEN E
    ELSE [E EXCEPT !.listenerMap[key] = Append(@, listener)]

\* addListener(key, listener)
addListener(E, key, listener) ==
    [E EXCEPT !.listenerMap[key] = Append(@, listener)]

\* the callback's body disarming the timer when its load fails
reloadStoppingOnFailure(E, env, files) ==
    LET R == IF E.loadMethod = "null" THEN ThrowLogged(E, "NotLoadedError")
             ELSE LET E1 == getObjectOrFileRef(E)
                  IN  IF E1.thrown # "none" THEN E1
                      ELSE loadSync(E1, E1.ret, env, files)
    IN  IF R.thrown # "none" THEN stopReloadInterval(R) ELSE R

\* the callback's body reloading under the environment as it was at
\* construction, no variable set
reloadWithoutEnvironment(E, env, files) ==
    IF E.loadMethod = "null" THEN ThrowLogged(E, "NotLoadedError")
    ELSE LET E1 == getObjectOrFileRef(E)
         IN  IF E1.thrown # "none" THEN E1
             ELSE loadSync(E1, E1.ret, [n \in EnvNames |-> Undef], files)

\* the body of the timer's callback: await this.loadMethod(this.objectOrFileRef)
reload(E, env, files) ==
    IF E.loadMethod = "null" THEN ThrowLogged(E, "NotLoadedError")
    ELSE LET E1 == getObjectOrFileRef(E)
         IN  IF E1.thrown # "none" THEN E1
             ELSE loadSync(E1, E1.ret, env, files)

\* the timer's callback, an async function nothing awaits: what it throws
\* rejects a promise nobody handles
createReloadIntervalCallback(E, env, files) ==
    LET R == reload(E, env, files)
    IN  [R EXCEPT !.unhandled = (R.thrown # "none")]

\* ------------------------------------------------------------------ heap layout
\* The live objects renumbered in the order in which the roots reach them, so
\* that a state does not depend on the addresses earlier garbage had.
RECURSIVE Visit(_, _, _), VisitAll(_, _, _)
VisitAll(h, order, as) ==
    IF as = {} THEN order
    ELSE LET a == CHOOSE x \in as : \A y \in as : x <= y
         IN  VisitAll(h, Visit(h, order, a), as \ {a})
Visit(h, order, a) ==
    IF \E i \in 1..Len(order) : order[i] = a THEN order
    ELSE VisitAll(h, Append(order, a), CellRefs(h, a))

RECURSIVE VisitRoots(_, _, _)
VisitRoots(h, order, roots) ==
    IF roots = <<>> THEN order
    ELSE VisitRoots(h, VisitAll(h, order, RefsOf(Head(roots))), Tail(roots))

IndexOf(order, a) == CHOOSE i \in 1..Len(order) : order[i] = a
Renamed(order, v) == IF v.t = "ref" THEN Ref(IndexOf(order, v.a)) ELSE v
Compact(h, order) ==
    [i \in Addr |->
        IF i <= Len(order)
        THEN Obj([k \in DOMAIN h[order[i]].f |-> Renamed(order, h[order[i]].f[k])])
        ELSE Free]

\* what an operation leaves in `last`
Op(op, key, arg, ret, outcome) ==
    [op |-> op, key |-> key, arg |-> arg, ret |-> ret, outcome |-> outcome,
     logged |-> FALSE, unhandled |-> FALSE, seen |-> <<>>, invoked |-> <<>>,
     reads |-> <<>>, parses |-> <<>>]

\* The engine E after a call becomes the state; the caller then holds the
\* objects newHeld, newGot and newKept. (The actions bind E with \E so that
\* a call is evaluated once.)
CommitCaller(E, newHeld, newGot, newKept, newPending, op) ==
    LET order == VisitRoots(E.heap, <<>>,
                    <<configObject, newHeld, newGot, newKept, E.objectOrFileRef,
                      E.currentConfigValue>>)
    IN  /\ heap' = Compact(E.heap, order)
        /\ configObject' = Renamed(order, configObject)
        /\ held' = Renamed(order, newHeld)
        /\ got' = Renamed(order, newGot)
        /\ kept' = Renamed(order, newKept)
        /\ objectOrFileRef' = Renamed(order, E.objectOrFileRef)
        /\ currentConfigValue' = Renamed(order, E.currentConfigValue)
        /\ adapter' = E.adapter
        /\ listenerMap' = E.listenerMap
        /\ intervalCallback' = E.intervalCallback
        /\ timers' = E.timers
        /\ reloadIntervalMs' = E.reloadIntervalMs
        /\ loadMethod' = E.loadMethod
        /\ calls' = E.calls
        /\ pending' = newPending
        /\ last' = [op EXCEPT !.logged = E.logged, !.unhandled = E.unhandled,
                              !.seen = E.seen, !.invoked = E.invoked,
                              !.reads = E.reads, !.parses = E.parses]
        /\ UNCHANGED <<logger, schema>>

Commit(E, newPending, op) == CommitCaller(E, held, got, kept, newPending, op)

\* ------------------------------------------------------------------ actions
\* new ZodConfig({ schema, reloadIntervalMs?, customAdapter? }): the state after
\* construction, the adapter "null" unless the option customAdapter is given
ConstructedWith(adapters, options, maps, schemas) ==
    /\ adapter \in adapters
    /\ schema \in schemas
    /\ logger \in {Logger(o, mp) : o \in options, mp \in maps}
    /\ objectOrFileRef = Undef
    /\ currentConfigValue = Undef
    /\ listenerMap = [k \in Fields |-> <<>>]
    /\ intervalCallback = 0
    /\ timers = <<>>
    /\ reloadIntervalMs \in {0, 100}
    /\ loadMethod = "null"
    /\ heap = [a \in Addr |->
                 IF a = 1 THEN Obj([port |-> Num(3000), db |-> Ref(2)])
                 ELSE IF a = 2 THEN Obj([host |-> Str("localhost")])
                 ELSE Free]
    /\ processEnv = [n \in EnvNames |-> Undef]
    /\ fs = [p \in {JsonPath} |-> Text(Config(Num(3000), "localhost"))]
    /\ configObject = Ref(1)
    /\ held = Undef
    /\ got = Undef
    /\ kept = Undef
    /\ pending = <<>>
    /\ calls = <<>>
    /\ last = Op("new", "", Undef, Undef, "none")

\* construction without the options logger and logLevelMap
ConstructedLogging(adapters, options, maps) ==
    ConstructedWith(adapters, options, maps, {RequiredSchema})
Constructed(adapters) == ConstructedLogging(adapters, {"false"}, {<<>>})

Init == Constructed({"null"})
\* construction with the schema whose db is optional
InitOptional == ConstructedWith({"null"}, {"false"}, {<<>>}, {OptionalDbSchema})
\* construction with any logger and any log-level map
InitLogger == ConstructedLogging({"null"}, LoggerOptions, LogLevelMaps)
\* construction with or without the option customAdapter
InitAdapter == Constructed({"null", "custom"})

\* the value the caller passes for a source it names
SourceValue(source) ==
    IF source = "configObject" THEN configObject
    ELSE IF source = "function" THEN Fn(configObject)
    ELSE Str(source)

\* zodConfig.loadSync(source)
CallLoadSync(sources) ==
    \E source \in sources :
        \E E \in {loadSync(This, SourceValue(source), processEnv, fs)} :
            /\ UNCHANGED <<processEnv, fs>>
            /\ Commit(E, pending,
                      Op("loadSync", "", Tree(heap, SourceValue(source)), Undef,
                         E.thrown))

\* zodConfig.load(source): the call runs up to its await
CallLoad(sources) ==
    \E source \in sources :
        /\ Len(pending) < MaxPending
        /\ \E E \in {load(This, SourceValue(source), processEnv)} :
            /\ UNCHANGED <<processEnv, fs>>
            /\ IF E.thrown # "none"
               THEN Commit(E, pending,
                           Op("load", "", Tree(heap, SourceValue(source)), Undef,
                              E.thrown))
               ELSE Commit(E, Append(pending, Suspended(E)),
                           Op("load", "", Tree(heap, SourceValue(source)), Undef,
                              "pending"))

\* a suspended load continues after its adapter read and runs to its end
LoadResume ==
    \E i \in 1..Len(pending) :
        \E E \in {loadResumed(This, pending[i], fs)} :
            /\ UNCHANGED <<processEnv, fs>>
            /\ Commit(E,
                      SubSeq(pending, 1, i - 1) \o SubSeq(pending, i + 1, Len(pending)),
                      Op("loadResumed", "", Undef, Undef, E.thrown))

\* zodConfig.get(key); when keep, the caller holds on to an object it gets
\* and to the one it got before
CallGet(keep) ==
    \E key \in Fields :
        \E E \in {get(This, key)} :
            /\ UNCHANGED <<processEnv, fs>>
            /\ IF keep /\ IsRef(E.ret)
               THEN CommitCaller(E, held, E.ret, got, pending,
                                 Op("get", key, Undef, Tree(E.heap, E.ret), E.thrown))
               ELSE Commit(E, pending,
                           Op("get", key, Undef, Tree(E.heap, E.ret), E.thrown))

\* zodConfig.set(key, value) with a literal: a number, or a new { host: h }
\* the caller does not keep
CallSet ==
    \E key \in Fields :
        \E value \in IF key = "port" THEN SetPorts
                     ELSE {Obj([host |-> Str(h)]) : h \in Hosts} :
            \E lit \in {Alloc(heap, value)} :
            \E E \in {set([This EXCEPT !.heap = lit.h], key, lit.v)} :
                /\ UNCHANGED <<processEnv, fs>>
                /\ Commit(E, pending, Op("set", key, value, Undef, E.thrown))

\* zodConfig.set('db', value) with the object the caller holds
CallSetHeld ==
    /\ IsRef(held)
    /\ \E E \in {set(This, "db", held)} :
           /\ UNCHANGED <<processEnv, fs>>
           /\ Commit(E, pending,
                     Op("set", "db", Tree(heap, held), Undef, E.thrown))

ListenerCount == Len(listenerMap["port"]) + Len(listenerMap["db"])

\* zodConfig.addListener(key, listener)
CallAddListener(keys, listeners, max) ==
    \E key \in keys, l \in listeners :
        /\ ListenerCount < max
        /\ UNCHANGED <<processEnv, fs>>
        /\ \E E \in {addListener(This, key, l)} :
               Commit(E, pending, Op("addListener", key, Str(l), Undef, "none"))

\* zodConfig.setAdapter(adapter?): "null" stands for no argument
CallSetAdapter(adapters) ==
    \E a \in adapters :
        \E E \in {setAdapter(This, a)} :
            /\ UNCHANGED <<processEnv, fs>>
            /\ Commit(E, pending, Op("setAdapter", "", Str(a), Undef, E.thrown))

\* zodConfig.startReloadInterval(intervalMs?)
CallStartReloadInterval ==
    \E ms \in {0} \cup Intervals :
        /\ UNCHANGED <<processEnv, fs>>
        /\ \E E \in {startReloadInterval(This, ms)} :
               Commit(E, pending,
                      Op("startReloadInterval", "",
                         IF ms = 0 THEN Undef ELSE Num(ms), Undef, "none"))

\* zodConfig.stopReloadInterval()
CallStopReloadInterval ==
    /\ UNCHANGED <<processEnv, fs>>
    /\ \E E \in {stopReloadInterval(This)} :
           Commit(E, pending, Op("stopReloadInterval", "", Undef, Undef, "none"))

\* the armed timer fires
Tick ==
    /\ timers # <<>>
    /\ \E E \in {createReloadIntervalCallback(This, processEnv, fs)} :
           /\ UNCHANGED <<processEnv, fs>>
           /\ Commit(E, pending, Op("tick", "", Undef, Undef, E.thrown))

\* what the caller and the environment do leaves the engine's fields alone
Outside(op) ==
    /\ last' = Op(op, "", Undef, Undef, "none")
    /\ calls' = <<>>
    /\ UNCHANGED <<adapter, objectOrFileRef, currentConfigValue, listenerMap,
                   intervalCallback, timers, reloadIntervalMs, loadMethod, configObject,
                   held, got, kept, pending, logger, schema>>

\* the caller writes the port of its configuration object
MutateConfig ==
    /\ \E p \in SourcePorts :
        /\ heap[configObject.a].f["port"] # p
        /\ heap' = [heap EXCEPT ![configObject.a].f["port"] = p]
    /\ Outside("mutateConfig")
    /\ UNCHANGED <<processEnv, fs>>

\* the caller deletes db from its configuration object, or gives it a db
MutateConfigDb ==
    /\ \E h \in IF "db" \in DOMAIN heap[configObject.a].f
                THEN {Obj([k \in {"port"} |-> heap[configObject.a].f[k]])}
                ELSE {Obj([k \in Fields |->
                          IF k = "db" THEN Ref(NewAddr(heap))
                          ELSE heap[configObject.a].f[k]])} :
          Commit([This EXCEPT !.heap = [heap EXCEPT
                      ![NewAddr(heap)] = Obj([host |-> Str("localhost")]),
                      ![configObject.a] = h]],
                 pending, Op("mutateConfig", "", Undef, Undef, "none"))
    /\ UNCHANGED <<processEnv, fs>>

\* the caller makes a new object { host: h } and holds it
MakeObject ==
    \E h \in Hosts :
        LET new == Alloc(heap, Obj([host |-> Str(h)]))
        IN  /\ UNCHANGED <<processEnv, fs>>
            /\ CommitCaller([This EXCEPT !.heap = new.h], new.v, got, kept, pending,
                            Op("makeObject", "", Undef, Undef, "none"))

\* the caller writes into an object it holds
MutateHeld ==
    /\ \E o \in {held, got, kept}, h \in Hosts :
        /\ IsRef(o)
        /\ heap[o.a].f["host"] # Str(h)
        /\ heap' = [heap EXCEPT ![o.a].f["host"] = Str(h)]
    /\ Outside("mutateHeld")
    /\ UNCHANGED <<processEnv, fs>>

\* the environment variable PORT is set or deleted
SetEnv ==
    /\ \E v \in EnvValues :
        /\ processEnv["PORT"] # v
        /\ processEnv' = [processEnv EXCEPT !["PORT"] = v]
    /\ Outside("setEnv")
    /\ UNCHANGED <<heap, fs>>

\* the file at the JSON path is written or removed
WriteFile ==
    /\ \E c \in FileStates :
        /\ fs[JsonPath] # c
        /\ fs' = [fs EXCEPT ![JsonPath] = c]
    /\ Outside("writeFile")
    /\ UNCHANGED <<heap, processEnv>>

\* ------------------------------------------------------------------ specifications
\* The engine used with the caller's object as source: loads, reads, writes,
\* listeners and the reload timer.
Next ==
    \/ CallLoadSync(ObjectSources)
    \/ CallGet(FALSE)
    \/ CallSet
    \/ CallAddListener(Fields, Listeners, MaxListeners)
    \/ CallStartReloadInterval
    \/ CallStopReloadInterval
    \/ Tick
    \/ MutateConfig

Spec == Init /\ [][Next]_vars

\* The caller keeps and writes the objects it reads from and gives to the engine.
NextCopy ==
    \/ CallLoadSync(ObjectSources)
    \/ CallGet(TRUE)
    \/ CallSetHeld
    \/ MakeObject
    \/ MutateHeld
    \/ MutateConfig

SpecCopy == Init /\ [][NextCopy]_vars

\* The engine with the environment overlay: the variable PORT and the source
\* change between and during synchronous and asynchronous loads.
\* the environment gets or loses a variable no field is bound to, named like
\* the field db
SetUnboundEnv ==
    /\ \E v \in {Undef, Str("remotehost")} :
        /\ processEnv["db"] # v
        /\ processEnv' = [processEnv EXCEPT !["db"] = v]
    /\ Outside("setEnv")
    /\ UNCHANGED <<heap, fs>>

NextEnv ==
    \/ CallLoadSync(ObjectSources)
    \/ CallLoad(ObjectSources)
    \/ LoadResume
    \/ CallGet(FALSE)
    \/ MutateConfig
    \/ SetEnv

SpecEnv == Init /\ [][NextEnv]_vars

\* The engine with files as sources, loaded synchronously or asynchronously.
NextFiles ==
    \/ CallLoadSync(ObjectSources \cup PathSources)
    \/ CallLoad(PathSources)
    \/ LoadResume
    \/ CallGet(FALSE)
    \/ CallSet
    \/ CallStartReloadInterval
    \/ Tick
    \/ WriteFile

SpecFiles == Init /\ [][NextFiles]_vars

\* Listeners under synchronous loads, asynchronous loads and reload ticks.
NextNotify ==
    \/ CallLoadSync(ObjectSources)
    \/ CallLoad(ObjectSources)
    \/ LoadResume
    \/ CallAddListener(Fields, Listeners, MaxListeners)
    \/ Tick
    \/ MutateConfig

SpecNotify == Init /\ [][NextNotify]_vars

\* The reload timer, armed by loads under a configured interval, stopped
\* around synchronous and asynchronous loads of the caller's object, with
\* listeners.
NextTimer ==
    \/ CallLoadSync(ObjectSources)
    \/ CallLoad(ObjectSources)
    \/ LoadResume
    \/ CallAddListener({"port"}, Listeners, MaxWatchers)
    \/ CallStopReloadInterval
    \/ Tick
    \/ MutateConfig

SpecTimer == Init /\ [][NextTimer]_vars

\* Adapters assigned explicitly, at construction or by setAdapter, around
\* loads of every kind of source reference and reload ticks.
NextAdapter ==
    \/ CallLoadSync(ObjectSources \cup PathSources)
    \/ CallLoad(ObjectSources \cup PathSources)
    \/ LoadResume
    \/ CallSetAdapter({"null", "custom", "json"})
    \/ Tick
    \/ WriteFile

SpecAdapter == InitAdapter /\ [][NextAdapter]_vars

\* Two callbacks registered, also repeatedly, and dispatched by set and by
\* loads of a changing source.
NextOrder ==
    \/ CallLoadSync(ObjectSources)
    \/ CallAddListener(Fields, OrderedListeners, MaxOrdered)
    \/ CallSet
    \/ MutateConfig

SpecOrder == Init /\ [][NextOrder]_vars

\* loads and sets dispatching to callbacks that read the engine
NextReader ==
    \/ CallLoadSync(ObjectSources)
    \/ CallAddListener(Fields, ReadingListeners, MaxListeners)
    \/ CallSet
    \/ MutateConfig

SpecReader == Init /\ [][NextReader]_vars

\* loads and sets dispatching to callbacks that write into their arguments
NextMutator ==
    \/ CallLoadSync(ObjectSources)
    \/ CallAddListener({"db"}, MutatingListeners, MaxListeners)
    \/ CallGet(FALSE)
    \/ CallSet
    \/ MutateConfig

SpecMutator == Init /\ [][NextMutator]_vars

\* loads under an environment with bound and unbound variables
NextOverlay ==
    \/ CallLoadSync(ObjectSources)
    \/ CallLoad(ObjectSources)
    \/ LoadResume
    \/ MutateConfig
    \/ SetEnv
    \/ SetUnboundEnv

SpecOverlay == Init /\ [][NextOverlay]_vars

\* loads whose source reference is a function of the overlay
NextFunction ==
    \/ CallLoadSync(FunctionSources)
    \/ CallLoad(FunctionSources)
    \/ LoadResume
    \/ Tick
    \/ MutateConfig
    \/ SetEnv

SpecFunction == Init /\ [][NextFunction]_vars

\* reload ticks under a changing environment, with a listener on port
NextEnvTick ==
    \/ CallLoadSync(ObjectSources)
    \/ CallAddListener({"port"}, Listeners, MaxWatchers)
    \/ Tick
    \/ SetEnv

SpecEnvTick == Init /\ [][NextEnvTick]_vars

\* loads of a source that has or lacks the optional field db, with listeners
NextOptional ==
    \/ CallLoadSync(ObjectSources)
    \/ CallAddListener(Fields, Listeners, MaxListeners)
    \/ MutateConfig
    \/ MutateConfigDb

SpecOptional == InitOptional /\ [][NextOptional]_vars

\* values written by set under loads and reload ticks of the caller's object
NextSetTick ==
    \/ CallLoadSync(ObjectSources)
    \/ CallSet
    \/ CallAddListener(Fields, Listeners, MaxListeners)
    \/ Tick
    \/ MutateConfig

SpecSetTick == Init /\ [][NextSetTick]_vars

\* this.logger.log(message, event)
LogEvent ==
    /\ \E event \in LogEvents : logger' = log(logger, event)
    /\ UNCHANGED <<adapter, objectOrFileRef, currentConfigValue, listenerMap,
                   intervalCallback, timers, reloadIntervalMs, loadMethod, heap,
                   processEnv, fs, configObject, held, got, kept, pending,
                   calls, last, schema>>

\* a logger of any construction logging events
NextLogger == LogEvent

SpecLogger == InitLogger /\ [][NextLogger]_vars

\* loads and sets dispatching to callbacks some of which throw
NextThrow ==
    \/ CallLoadSync(ObjectSources)
    \/ CallAddListener(Fields, ThrowingListeners, MaxOrdered)
    \/ CallSet
    \/ MutateConfig

SpecThrow == Init /\ [][NextThrow]_vars

\* ------------------------------------------------------------------ properties
Loaded == currentConfigValue # Undef
\* the current snapshot by value, what get sees of it
SnapshotView == Tree(heap, currentConfigValue)
\* the suspended load a step resumes and ends
Resumes(i) ==
    /\ i \in 1..Len(pending)
    /\ last'.op = "loadResumed"
    /\ pending' = SubSeq(pending, 1, i - 1) \o SubSeq(pending, i + 1, Len(pending))
\* the overlay a synchronous load reads from the environment as it is
EnvOverlay == compiledEnvSchema(getEnvValues(processEnv))
\* the merge of a raw mapping and an overlay is rejected by the combined validator
MergeRejected(raw, overlay) == ~compiledSchema(Spread(raw, overlay)).ok

\* C1: in Loaded state a loadSync, or a load resumed after its read, whose
\* merged mapping fails validation ends with the validation error and leaves
\* the snapshot as it was; and whenever a load ends with the validation error
\* the snapshot is as before.
C1_FailedValidationKeepsSnapshot ==
    [][/\ ( /\ Loaded
            /\ last'.op = "loadSync"
            /\ EnvOverlay.ok
            /\ MergeRejected(last'.arg, EnvOverlay.v) )
          => (last'.outcome = "ZodError" /\ SnapshotView' = SnapshotView)
       /\ \A i \in 1..Len(pending) :
            (Loaded /\ Resumes(i)
                /\ MergeRejected(pending[i].rawConfig, pending[i].envVariables))
            => (last'.outcome = "ZodError" /\ SnapshotView' = SnapshotView)
       /\ ( /\ Loaded
            /\ last'.op \in {"load", "loadSync", "loadResumed"}
            /\ last'.outcome = "ZodError" )
          => SnapshotView' = SnapshotView
      ]_vars

\* a loadSync of an invalid source has failed and the earlier snapshot,
\* with the valid port, is still there
C1_Witness ==
    /\ Loaded
    /\ last.op = "loadSync"
    /\ last.outcome = "ZodError"
    /\ last.arg.f["port"] = Str("invalid")
    /\ SnapshotView.f["port"] = Num(3000)

\* C2: whenever a snapshot exists, the combined validator accepts it.
C2_SnapshotSatisfiesSchema ==
    Loaded => compiledSchema(SnapshotView).ok

\* C3: while no load has succeeded, get and set fail with NotLoadedError and
\* no snapshot exists, whatever load attempts have failed; the snapshot comes
\* into existence only in a step that ends a loadSync or a load (the timer's
\* loadSync included) without an error.
C3_NotLoadedUntilLoadSucceeds ==
    [][/\ (~Loaded /\ Loaded')
          => ( /\ last'.op \in {"loadSync", "loadResumed", "tick"}
               /\ last'.outcome = "none" )
       /\ (~Loaded /\ last'.op \in {"get", "set"})
          => (last'.outcome = "NotLoadedError" /\ ~Loaded')
      ]_vars

\* after a load of the JSON path has failed at the adapter, set still fails
\* with NotLoadedError
C3_Witness ==
    /\ ~Loaded
    /\ objectOrFileRef = Str(JsonPath)
    /\ adapter = "json"
    /\ last.op = "set"
    /\ last.outcome = "NotLoadedError"

\* the value the variable bound to field k is set to, Undef when unset or empty
EnvOf(env, k) == Prop(getEnvValues(env), k)

\* C4: after a successful loadSync whose source supplies field k while k's
\* variable is set to a value its validator accepts, k's value is the coerced
\* variable; a load resumed after its read installs the overlay it read when
\* it was called.
C4_EnvironmentWins ==
    [][\A k \in Fields :
        /\ ( /\ last'.op = "loadSync"
             /\ last'.outcome = "none"
             /\ last'.arg.t = "obj"
             /\ Prop(last'.arg, k) # Undef
             /\ EnvOf(processEnv, k) # Undef
             /\ FieldParse(k, EnvOf(processEnv, k)).ok )
           => SnapshotView'.f[k] = FieldParse(k, EnvOf(processEnv, k)).v
        /\ \A i \in 1..Len(pending) :
             ( /\ Resumes(i)
               /\ last'.outcome = "none"
               /\ Prop(pending[i].rawConfig, k) # Undef
               /\ Prop(pending[i].envVariables, k) # Undef )
             => SnapshotView'.f[k] = pending[i].envVariables.f[k]
      ]_vars

\* the source says port 3000, PORT is "3001", and the loaded port is 3001
C4_Witness ==
    /\ last.op = "loadSync"
    /\ last.outcome = "none"
    /\ last.arg.f["port"] = Num(3000)
    /\ processEnv["PORT"] = Str("3001")
    /\ SnapshotView.f["port"] = Num(3001)

\* the objects that make up the current snapshot
SnapshotCells == Reach(heap, RefsOf(currentConfigValue))
\* the objects of the caller's configuration object
ConfigCells == Reach(heap, RefsOf(configObject))
\* the objects reachable from a value the caller holds
CellsOf(v) == Reach(heap, RefsOf(v))

\* C5: in Loaded state get(field) returns the stored value by value, made of
\* objects shared neither with the snapshot nor with an earlier get result
\* nor with another object of the caller; neither get nor a write into an
\* object the caller holds changes the snapshot, so that a later get returns
\* the stored value.
C5_GetReturnsIndependentCopy ==
    [][/\ (Loaded /\ last'.op = "get")
          => ( /\ last'.outcome = "none"
               /\ last'.ret = SnapshotView.f[last'.key]
               /\ SnapshotView' = SnapshotView
               /\ IsRef(got') =>
                    LET new == Reach(heap', RefsOf(got'))
                    IN  /\ new \cap Reach(heap', RefsOf(currentConfigValue')) = {}
                        /\ new \cap Reach(heap', RefsOf(kept')) = {}
                        /\ new \cap Reach(heap', RefsOf(held')) = {}
                        /\ new \cap Reach(heap', RefsOf(configObject')) = {} )
       /\ (Loaded /\ last'.op = "mutateHeld") => SnapshotView' = SnapshotView
      ]_vars

\* the caller has read db twice and written into the first result: the second
\* result and the snapshot still say localhost
C5_Witness ==
    /\ Loaded
    /\ last.op = "get"
    /\ last.key = "db"
    /\ IsRef(got)
    /\ IsRef(kept)
    /\ Tree(heap, kept).f["host"] = Str("remotehost")
    /\ last.ret.f["host"] = Str("localhost")
    /\ Tree(heap, got) = last.ret
    /\ SnapshotView.f["db"] = last.ret

\* C6: in Loaded state set(field, v) stores v by value in objects of its own:
\* the stored value equals v and shares no object with what the caller holds,
\* and a later write into the caller's object leaves the snapshot, hence every
\* later get, as it was.
C6_SetStoresDeepCopy ==
    [][/\ (Loaded /\ last'.op = "set")
          => ( /\ last'.outcome = "none"
               /\ SnapshotView'.f[last'.key] = last'.arg
               /\ LET stored == Reach(heap', RefsOf(currentConfigValue'))
                  IN  /\ stored \cap Reach(heap', RefsOf(held')) = {}
                      /\ stored \cap Reach(heap', RefsOf(got')) = {}
                      /\ stored \cap Reach(heap', RefsOf(kept')) = {}
                      /\ stored \cap Reach(heap', RefsOf(configObject')) = {} )
       /\ (Loaded /\ last'.op = "get" /\ last.op = "set" /\ last.outcome = "none"
              /\ last'.key = last.key)
          => last'.ret = last.arg
       /\ (Loaded /\ last'.op = "mutateHeld") => SnapshotView' = SnapshotView
      ]_vars

\* the caller gave its object { host: remotehost } to set and then wrote
\* localhost into it: the stored db still says remotehost
C6_Witness ==
    /\ Loaded
    /\ last.op = "mutateHeld"
    /\ IsRef(held)
    /\ Tree(heap, held).f["host"] = Str("localhost")
    /\ SnapshotView.f["db"].f["host"] = Str("remotehost")
    /\ got = Undef

\* the invocations set(key, ...) has to make: one per registration of key, in
\* registration order, with the new value and the value stored before
SetCalls(key, newValue, oldValue) ==
    [i \in 1..Len(listenerMap[key]) |->
        [key |-> key, listener |-> listenerMap[key][i],
         new |-> newValue, old |-> oldValue]]

\* C7: in Loaded state set(field, newVal) invokes every listener registered
\* for field once per registration with (newVal, the value stored before),
\* also when the two are equal.
C7_SetDispatchesEveryListener ==
    [][(Loaded /\ last'.op = "set")
        => ( /\ last'.outcome = "none"
             /\ SelectSeq(calls', LAMBDA c : c.key = last'.key)
                   = SetCalls(last'.key, last'.arg, SnapshotView.f[last'.key]) )
      ]_vars

\* two registrations on port, set('port', 3000) over a stored 3000: two
\* invocations with (3000, 3000)
C7_Witness ==
    /\ Loaded
    /\ last.op = "set"
    /\ last.key = "port"
    /\ Len(listenerMap["port"]) = 2
    /\ Len(calls) = 2
    /\ calls[1].new = Num(3000)
    /\ calls[1].old = Num(3000)
    /\ calls[2].new = Num(3000)
    /\ calls[2].old = Num(3000)

\* C8: a set on field B invokes no listener of another field A, changes no
\* stored value but B's and leaves the listener registry and the timer as
\* they were.
C8_SetFrame ==
    [][(Loaded /\ last'.op = "set")
        => ( /\ \A i \in 1..Len(calls') : calls'[i].key = last'.key
             /\ \A k \in Fields \ {last'.key} : SnapshotView'.f[k] = SnapshotView.f[k]
             /\ DOMAIN SnapshotView'.f = DOMAIN SnapshotView.f
             /\ listenerMap' = listenerMap
             /\ intervalCallback' = intervalCallback )
      ]_vars

\* a listener is registered on port, the timer is armed, set('db', ...) has
\* changed db and invoked nothing
C8_Witness ==
    /\ Loaded
    /\ last.op = "set"
    /\ last.key = "db"
    /\ Len(listenerMap["port"]) > 0
    /\ Len(listenerMap["db"]) = 0
    /\ intervalCallback # 0
    /\ SnapshotView.f["db"].f["host"] = Str("remotehost")
    /\ calls = <<>>

\* the invocations a load has to make going from snapshot old to snapshot new:
\* for the fields in keys, in order, whose values differ, every registration
\* with (new value, previous value)
RECURSIVE LoadCalls(_, _, _)
LoadCalls(keys, new, old) ==
    IF keys = <<>> THEN <<>>
    ELSE LET k == Head(keys)
         IN  (IF new.f[k] = old.f[k] THEN <<>>
              ELSE [i \in 1..Len(listenerMap[k]) |->
                      [key |-> k, listener |-> listenerMap[k][i],
                       new |-> new.f[k], old |-> old.f[k]]])
             \o LoadCalls(Tail(keys), new, old)

\* C9: a successful loadSync, resumed load or reload tick in Loaded state
\* invokes the listeners of exactly the fields whose value in the new snapshot
\* is not structurally equal to the value in the snapshot before, each with
\* (new value, previous value).
C9_LoadDispatchesIffChanged ==
    [][(Loaded /\ last'.op \in {"loadSync", "loadResumed", "tick"}
               /\ last'.outcome = "none")
        => calls' = LoadCalls(KeyOrder, SnapshotView', SnapshotView)
      ]_vars

\* listeners on port and on db, a tick has moved port from 3000 to 3001 and
\* left db: one invocation, of port's listener, with (3001, 3000)
C9_Witness ==
    /\ Loaded
    /\ last.op = "tick"
    /\ last.outcome = "none"
    /\ Len(listenerMap["port"]) = 1
    /\ Len(listenerMap["db"]) = 1
    /\ Len(calls) = 1
    /\ calls[1].key = "port"
    /\ calls[1].new = Num(3001)
    /\ calls[1].old = Num(3000)

\* C10: a tick of the timer, while the caller's configuration object (the
\* source the caller passed to loadSync) holds valid content, leaves the
\* snapshot equal to what the combined validator makes of that content.
C10_TickReloadsCallersSource ==
    [][( /\ last'.op = "tick"
         /\ adapter = "object"
         /\ compiledSchema(Tree(heap, configObject)).ok )
        => ( /\ last'.outcome = "none"
             /\ SnapshotView' = compiledSchema(Tree(heap, configObject)).v )
      ]_vars

\* the steps that belong to a load, a set or a startReloadInterval call
LoadSetOrStart == {"load", "loadSync", "loadResumed", "set", "startReloadInterval"}

\* C11: stopReloadInterval leaves no timer behind, and while no timer is
\* active every step that is not part of a load, set or startReloadInterval
\* call leaves it so: no tick runs, the snapshot stays as it is and no listener
\* is invoked, whatever the caller writes into its source.
C11_NoTickAfterStop ==
    [][/\ last'.op = "stopReloadInterval"
          => (timers' = <<>> /\ intervalCallback' = 0)
       /\ (timers = <<>> /\ last'.op \notin LoadSetOrStart)
          => ( /\ timers' = <<>>
               /\ intervalCallback' = intervalCallback
               /\ last'.op # "tick"
               /\ SnapshotView' = SnapshotView
               /\ calls' = <<>> )
      ]_vars

\* an interval of 100 is configured and a load has succeeded, so the timer was
\* armed; it has been stopped, the caller has written 3001 into its object and
\* the snapshot still says 3000
C11_Witness ==
    /\ Loaded
    /\ reloadIntervalMs = 100
    /\ timers = <<>>
    /\ pending = <<>>
    /\ last.op = "mutateConfig"
    /\ Tree(heap, configObject).f["port"] = Num(3001)
    /\ SnapshotView.f["port"] = Num(3000)
    /\ Len(listenerMap["port"]) > 0

\* C12: the runtime holds at most one reload timer of the engine, the one
\* whose handle the engine keeps; startReloadInterval while a timer is active
\* changes nothing, whatever interval it asks for, and stopReloadInterval while
\* none is active changes nothing.
C12_AtMostOneTimer ==
    [][/\ Len(timers') <= 1
       /\ timers' = (IF intervalCallback' = 0 THEN <<>> ELSE <<intervalCallback'>>)
       /\ (last'.op = "startReloadInterval" /\ timers # <<>>)
          => ( /\ timers' = timers
               /\ intervalCallback' = intervalCallback
               /\ SnapshotView' = SnapshotView
               /\ listenerMap' = listenerMap )
       /\ (last'.op = "stopReloadInterval" /\ timers = <<>>)
          => ( /\ timers' = <<>>
               /\ intervalCallback' = 0
               /\ SnapshotView' = SnapshotView
               /\ listenerMap' = listenerMap )
      ]_vars

\* startReloadInterval(200) was called while the timer armed with the
\* configured 100 was running: that timer is still the only one
C12_Witness ==
    /\ last.op = "startReloadInterval"
    /\ last.arg = Num(200)
    /\ timers = <<100>>
    /\ intervalCallback = 100

\* the raw mapping the stored source reference yields to the adapter in place,
\* Undef when the adapter cannot produce one
StoredRaw ==
    CASE adapter = "object" /\ IsRef(objectOrFileRef) -> Tree(heap, objectOrFileRef)
      [] adapter \in {"json", "yaml"} /\ objectOrFileRef.t = "str"
         /\ objectOrFileRef.s \in DOMAIN fs
         /\ fs[objectOrFileRef.s].t = "text" /\ fs[objectOrFileRef.s].ok
           -> fs[objectOrFileRef.s].data
      [] OTHER -> Undef
\* a tick in this state finds a valid source: the stored reference yields a
\* mapping that, merged with the environment overlay, the validator accepts
TickFindsValidSource ==
    /\ loadMethod # "null"
    /\ StoredRaw # Undef
    /\ EnvOverlay.ok
    /\ ~MergeRejected(StoredRaw, EnvOverlay.v)

C14_TickFailureOnlyLogged ==
    (last.op = "tick" /\ last.outcome # "none")
        => (last.logged /\ ~last.unhandled)

\* the adapter the source reference a load was called with determines,
\* "null" when it determines none
AdapterFor(ref) ==
    CASE ref.t = "obj" -> "object"
      [] ref.t = "str" /\ endsWith(ref.s, ".json") -> "json"
      [] ref.t = "str" /\ (endsWith(ref.s, ".yaml") \/ endsWith(ref.s, ".yml")) -> "yaml"
      [] OTHER -> "null"

\* C15: with no adapter assigned explicitly, a load or loadSync call whose
\* source reference determines an adapter (object, .json, .yaml/.yml) goes on
\* with that adapter, on the first load and on every later one.
C15_AdapterFollowsSource ==
    [][( /\ last'.op \in {"load", "loadSync"}
         /\ adapter # "custom"
         /\ EnvOverlay.ok
         /\ AdapterFor(last'.arg) # "null" )
        => adapter' = AdapterFor(last'.arg)
      ]_vars

\* what the custom adapter's loadSync returns, validated
CustomSnapshot == compiledSchema(Config(Num(3000), "localhost")).v

\* C16: while the custom adapter is assigned (by the constructor option or by
\* setAdapter(adapter)), no load, loadSync, resumed load or tick replaces it,
\* whatever source reference is passed, and every loadSync and tick takes its
\* raw mapping from that adapter.
C16_ExplicitAdapterKept ==
    [][( /\ adapter = "custom"
         /\ last'.op \in {"load", "loadSync", "loadResumed", "tick"} )
        => ( /\ adapter' = "custom"
             /\ (last'.op \in {"loadSync", "tick"} /\ EnvOverlay.ok)
                => ( /\ last'.outcome = "none"
                     /\ SnapshotView' = CustomSnapshot ) )
      ]_vars

\* loadSync('config.json') on an engine with the custom adapter, while the
\* file says 3001: the adapter is still the custom one and the port is its 3000
C16_Witness ==
    /\ adapter = "custom"
    /\ last.op = "loadSync"
    /\ last.arg = Str(JsonPath)
    /\ last.outcome = "none"
    /\ fs[JsonPath] = Text(Config(Num(3001), "localhost"))
    /\ SnapshotView.f["port"] = Num(3000)

\* C17: with no adapter set, load or loadSync with a path whose suffix is
\* none of .json, .yaml, .yml selects no adapter and fails with AdapterError
\* (adapter not set); no snapshot comes into being, no load stays suspended
\* and the timer is as before.
C17_UnknownSuffixSelectsNoAdapter ==
    [][( /\ adapter = "null"
         /\ last'.op \in {"load", "loadSync"}
         /\ last'.arg.t = "str"
         /\ AdapterFor(last'.arg) = "null"
         /\ EnvOverlay.ok )
        => ( /\ last'.outcome = "AdapterError"
             /\ adapter' = "null"
             /\ currentConfigValue' = currentConfigValue
             /\ ~Loaded'
             /\ pending' = pending
             /\ timers' = timers
             /\ intervalCallback' = intervalCallback )
      ]_vars

\* load('config.txt') on an engine with a configured interval has failed with
\* AdapterError: no adapter, no snapshot, no timer
C17_Witness ==
    /\ last.op = "load"
    /\ last.arg = Str(TextPath)
    /\ last.outcome = "AdapterError"
    /\ adapter = "null"
    /\ ~Loaded
    /\ reloadIntervalMs = 100
    /\ timers = <<>>

\* the file at a path as it is now
FileAt(path) == IF path \in DOMAIN fs THEN fs[path] ELSE NoFile
\* how a file adapter's read of that file has to end
ReadOutcome(file) ==
    CASE file.t = "nofile" -> "ReadError"
      [] file.t = "text" /\ ~file.ok -> "ParseError"
      [] OTHER -> "none"

\* C18: a loadSync of a path by a file adapter, and a load resumed at its file
\* read, fail with ReadError when the file cannot be read and with ParseError
\* when its content is malformed, and leave the snapshot as it was.
C18_ReadAndParseFailures ==
    [][/\ ( /\ last'.op = "loadSync"
            /\ last'.arg.t = "str"
            /\ adapter' \in {"json", "yaml"}
            /\ EnvOverlay.ok
            /\ ReadOutcome(FileAt(last'.arg.s)) # "none" )
          => ( /\ last'.outcome = ReadOutcome(FileAt(last'.arg.s))
               /\ SnapshotView' = SnapshotView )
       /\ \A i \in 1..Len(pending) :
            ( /\ Resumes(i)
              /\ pending[i].rawConfig = Undef
              /\ ReadOutcome(FileAt(pending[i].path.s)) # "none" )
            => ( /\ last'.outcome = ReadOutcome(FileAt(pending[i].path.s))
                 /\ SnapshotView' = SnapshotView )
      ]_vars

\* a load of the JSON path, resumed after the file had become malformed, has
\* failed with ParseError; the snapshot loaded before is there
C18_Witness ==
    /\ Loaded
    /\ last.op = "loadResumed"
    /\ last.outcome = "ParseError"
    /\ fs[JsonPath] = Malformed
    /\ SnapshotView.f["port"] = Num(3000)

\* field k's variable is set to a value k's validator rejects
EnvRejected(k) ==
    /\ SchemaEnv(k) # ""
    /\ processEnv[SchemaEnv(k)] # Undef
    /\ ~FieldParse(k, processEnv[SchemaEnv(k)]).ok

\* C19: while a bound variable is set to a value its field's validator
\* rejects, every load and loadSync call fails with the validation error,
\* whatever the source supplies, and leaves the snapshot as it was; no load
\* stays suspended.
C19_InvalidEnvironmentFails ==
    [][( /\ last'.op \in {"load", "loadSync"}
         /\ \E k \in Fields : EnvRejected(k) )
        => ( /\ last'.outcome = "ZodError"
             /\ SnapshotView' = SnapshotView
             /\ pending' = pending )
      ]_vars

\* PORT is "invalid", the source says 3001: loadSync has failed with the
\* validation error and the port loaded before, 3000, is still there
C19_Witness ==
    /\ Loaded
    /\ last.op = "loadSync"
    /\ last.outcome = "ZodError"
    /\ processEnv["PORT"] = Str("invalid")
    /\ last.arg.f["port"] = Num(3001)
    /\ SnapshotView.f["port"] = Num(3000)

\* the callbacks invoked for field k by the last operation, in order
InvokedFor(cs, k) ==
    LET of == SelectSeq(cs, LAMBDA c : c.key = k)
    IN  [i \in 1..Len(of) |-> of[i].listener]

\* C20: addListener appends the callback to its field's registrations and
\* nothing else changes the registry; whenever listeners of a field are
\* invoked, they are the field's registrations, one invocation each, in
\* registration order.
C20_RegistrationOrder ==
    [][/\ last'.op = "addListener"
          => listenerMap' = [listenerMap EXCEPT ![last'.key] = Append(@, last'.arg.s)]
       /\ last'.op # "addListener" => listenerMap' = listenerMap
       /\ \A k \in Fields :
             \/ InvokedFor(calls', k) = <<>>
             \/ InvokedFor(calls', k) = listenerMap[k]
      ]_vars

\* l2, l1 and l2 again are registered on port: set('port', ...) has invoked
\* l2, l1, l2
C20_Witness ==
    /\ last.op = "set"
    /\ last.key = "port"
    /\ listenerMap["port"] = <<"l2", "l1", "l2">>
    /\ InvokedFor(calls, "port") = <<"l2", "l1", "l2">>

\* the invocations made of those in s when a throwing callback ends the
\* dispatch: s up to and including the first throwing callback
Throwing(s) == {i \in 1..Len(s) : s[i].listener = "boom"}
UpToThrow(s) ==
    IF Throwing(s) = {} THEN s
    ELSE SubSeq(s, 1, CHOOSE i \in Throwing(s) : \A j \in Throwing(s) : i <= j)
ThrowOutcome(s) == IF Throwing(s) = {} THEN "none" ELSE "ListenerError"

\* C21: when a listener throws during the dispatch of a set or load call, no
\* listener that would have run after it in that call is invoked (later
\* listeners of the same field and, on load, the listeners of later changed
\* fields), and the exception reaches the caller of set/load.
C21_ThrowingListenerAbortsDispatch ==
    [][ /\ (Loaded /\ last'.op = "set")
            => LET due == SetCalls(last'.key, last'.arg, SnapshotView.f[last'.key])
               IN  /\ calls' = UpToThrow(due)
                   /\ last'.outcome = ThrowOutcome(due)
        /\ (Loaded /\ last'.op = "loadSync"
                   /\ last'.outcome \in {"none", "ListenerError"})
            => LET due == LoadCalls(KeyOrder, SnapshotView', SnapshotView)
               IN  /\ calls' = UpToThrow(due)
                   /\ last'.outcome = ThrowOutcome(due)
      ]_vars

\* port has a throwing callback followed by another one, db has a callback,
\* a loadSync that changed port ended with the callback's exception after one
\* invocation
C21_Witness ==
    /\ last.op = "loadSync"
    /\ last.outcome = "ListenerError"
    /\ listenerMap["port"] = <<"boom", "l1">>
    /\ listenerMap["db"] = <<"l1">>
    /\ Len(calls) = 1
    /\ calls[1].listener = "boom"
    /\ calls[1].key = "port"
    /\ SnapshotView.f["db"].f["host"] = Str("localhost")

\* C22: an event whose level in the log-level map is silent produces no log
\* output at all: neither the console nor a custom logger callback is
\* invoked for it.
C22_SilentEventProducesNoOutput ==
    (logger.written.event # "" /\ logger.logLevelMap[logger.written.event] = "silent")
        => (logger.written.console = "none" /\ logger.written.callback = "none")

\* C23: a load arms the reload timer only when it is the first successful
\* load of the engine and an interval was configured; a failed first load
\* arms nothing, and a successful load after stopReloadInterval leaves the
\* timer inactive.
C23_OnlyFirstLoadArmsTimer ==
    [][(last'.op \in {"loadSync", "tick"} /\ timers' # timers)
        => ( /\ ~Loaded
             /\ last'.outcome = "none"
             /\ reloadIntervalMs # 0
             /\ timers' = <<reloadIntervalMs>> )
      ]_vars

\* C24: a load or loadSync that ends with an error leaves the whole engine
\* state as it was before the call: the snapshot, the stored source reference
\* later ticks read, the selected adapter, the load method and the timer.
C24_FailedLoadChangesNothing ==
    [][(Loaded /\ last'.op \in {"loadSync", "load"}
               /\ last'.outcome \notin {"none", "pending"})
        => ( /\ SnapshotView' = SnapshotView
             /\ Tree(heap', objectOrFileRef') = Tree(heap, objectOrFileRef)
             /\ adapter' = adapter
             /\ loadMethod' = loadMethod
             /\ timers' = timers )
      ]_vars

\* C25: on a successful load the new snapshot is installed before any
\* listener runs: a get from inside a listener of that load's dispatch
\* returns the new snapshot's value for every field, also for a field whose
\* own listeners have not run yet.
C25_ListenersSeeNewSnapshot ==
    [][(Loaded /\ last'.op = "loadSync" /\ last'.outcome = "none")
        => ( /\ Len(last'.seen) = Len(calls')
             /\ \A i \in 1..Len(last'.seen) :
                    /\ last'.seen[i].key = calls'[i].key
                    /\ last'.seen[i].port = SnapshotView'.f["port"]
                    /\ last'.seen[i].db = SnapshotView'.f["db"] )
      ]_vars

\* a loadSync changed port and db; the callback of port, invoked first, got
\* from get('db') the value db's callback was handed as new afterwards
C25_Witness ==
    /\ last.op = "loadSync"
    /\ last.outcome = "none"
    /\ Len(calls) = 2
    /\ calls[1].key = "port"
    /\ calls[1].new # calls[1].old
    /\ calls[2].key = "db"
    /\ calls[2].new # calls[2].old
    /\ last.seen[1].key = "port"
    /\ last.seen[1].db = calls[2].new
    /\ last.seen[1].port = calls[1].new

\* what a set of db hands its listeners and stores is the caller's value,
\* whatever the listeners do with what they are handed
SetHandsOutCopies ==
    (Loaded /\ last'.op = "set" /\ last'.key = "db")
        => ( /\ \A i \in 1..Len(calls') :
                    /\ calls'[i].new = last'.arg
                    /\ calls'[i].old = SnapshotView.f["db"]
             /\ SnapshotView'.f["db"] = last'.arg )
\* what a load hands its listeners is the value the snapshot holds when the
\* load has ended
LoadHandsOutCopies ==
    (Loaded /\ last'.op = "loadSync" /\ last'.outcome = "none")
        => \A i \in 1..Len(calls') :
               /\ calls'[i].new = SnapshotView'.f[calls'[i].key]
               /\ calls'[i].old = SnapshotView.f[calls'[i].key]

\* C26: the new and old values handed to listeners are independent copies:
\* a listener writing into an object it received, on the set path and on the
\* load path, changes neither the snapshot, nor what the listeners invoked
\* after it see, nor what a later get returns.
C26_ListenerArgumentsAreCopies ==
    [][SetHandsOutCopies /\ LoadHandsOutCopies]_vars

\* C27: when stopReloadInterval is called on a loaded engine while an
\* asynchronous load is suspended, the load still completes, and when it has
\* completed the timer is inactive: no tick fires until startReloadInterval
\* is called.
C27_StopDuringLoadKeepsTimerStopped ==
    [][(Loaded /\ last.op = "stopReloadInterval" /\ \E i \in 1..Len(pending) : Resumes(i))
        => (timers' = <<>> /\ intervalCallback' = 0)
      ]_vars

\* C28: when a reload tick starts and completes while an earlier load is
\* suspended, the earlier load finishing afterwards does not overwrite the
\* snapshot of the later one: the snapshot stays the one derived from the
\* most recently stored source reference.
C28_EarlierLoadDoesNotOverwrite ==
    [][(last.op = "tick" /\ last.outcome = "none"
                         /\ \E i \in 1..Len(pending) : Resumes(i))
        => SnapshotView' = SnapshotView
      ]_vars

\* the fields with a binding whose variable is set to a non-empty value
SetNonEmpty(env) ==
    {k \in Fields : SchemaEnv(k) # "" /\ env[SchemaEnv(k)] \notin {Undef, Str("")}}

\* C29: the overlay of a load has a key exactly for the fields with an
\* environment binding whose variable is set to a non-empty value; after a
\* successful load a field without a binding, or whose variable is unset or
\* empty, has the value derived from the source mapping, whatever else the
\* environment contains.
C29_OverlayOnlySetNonEmptyBound ==
    [][/\ (last'.op = "load" /\ last'.outcome = "pending")
           => DOMAIN pending'[Len(pending')].envVariables.f = SetNonEmpty(processEnv)
       /\ (last'.op = "loadSync" /\ last'.outcome = "none")
           => \A k \in Fields \ SetNonEmpty(processEnv) :
                  SnapshotView'.f[k] = FieldParse(k, Prop(last'.arg, k)).v
      ]_vars

\* PORT is set to the empty string and a variable db is set; the source says
\* port 3001 and host localhost, and that is what the load installed
C29_Witness ==
    /\ last.op = "loadSync"
    /\ last.outcome = "none"
    /\ processEnv["PORT"] = Str("")
    /\ processEnv["db"] = Str("remotehost")
    /\ last.arg.f["port"] = Num(3001)
    /\ SnapshotView.f["port"] = Num(3001)
    /\ SnapshotView.f["db"].f["host"] = Str("localhost")

\* C30: a load or loadSync given a function as source reference, under an
\* environment whose overlay validates, invokes the function exactly once,
\* with the validated (coerced) overlay; the function's result is stored as
\* the source reference and, on an engine with no adapter yet, selects the
\* adapter; a reload tick invokes no function and keeps the stored result.
C30_FunctionSourceResolvedOnce ==
    [][/\ ( /\ last'.op \in {"load", "loadSync"}
            /\ last'.arg.t = "fn"
            /\ EnvOverlay.ok )
          => LET result == sourceFunction(last'.arg, EnvOverlay.v)
             IN  /\ last'.invoked = <<EnvOverlay.v>>
                 /\ Tree(heap', objectOrFileRef') = Tree(heap, result)
                 /\ adapter = "null" => adapter' = AdapterFor(Tree(heap, result))
       /\ last'.op = "tick"
          => /\ last'.invoked = <<>>
             /\ Tree(heap', objectOrFileRef') = Tree(heap, objectOrFileRef)
      ]_vars

\* the function chose config.json while PORT was 3001; PORT is unset now, so
\* that the function would choose the object, and a tick has reloaded
\* config.json without invoking it
C30_Witness ==
    /\ last.op = "tick"
    /\ last.outcome = "none"
    /\ last.invoked = <<>>
    /\ processEnv["PORT"] = Undef
    /\ objectOrFileRef = Str(JsonPath)
    /\ adapter = "json"

\* C31: the environment is read again on every reload tick: after a tick
\* that succeeds, a field whose bound variable is set holds the value coerced
\* from the variable as it is now, the source being unchanged, and the
\* listeners of the fields that changed are invoked with (new value,
\* previous value); a tick under a variable the validator rejects fails.
C31_TickReadsEnvironmentAgain ==
    [][(Loaded /\ last'.op = "tick")
        => /\ last'.outcome = "none"
              => /\ \A k \in SetNonEmpty(processEnv) :
                        SnapshotView'.f[k] = FieldParse(k, EnvOf(processEnv, k)).v
                 /\ \A k \in Fields \ SetNonEmpty(processEnv) :
                        SnapshotView'.f[k] = Tree(heap, objectOrFileRef).f[k]
                 /\ calls' = LoadCalls(KeyOrder, SnapshotView', SnapshotView)
           /\ (\E k \in Fields : EnvRejected(k)) => last'.outcome = "ZodError"
      ]_vars

\* the source says port 3000 and was loaded when PORT was unset; PORT is
\* "3001" now, a tick has installed 3001 and told the listener (3001, 3000)
C31_Witness ==
    /\ last.op = "tick"
    /\ last.outcome = "none"
    /\ processEnv["PORT"] = Str("3001")
    /\ Tree(heap, objectOrFileRef).f["port"] = Num(3000)
    /\ SnapshotView.f["port"] = Num(3001)
    /\ Len(calls) = 1
    /\ calls[1].key = "port"
    /\ calls[1].new = Num(3001)
    /\ calls[1].old = Num(3000)

\* C32: setAdapter(adapter) makes that adapter the current one, whichever
\* adapter was selected or set before, before and after the first load;
\* setAdapter() changes nothing when an adapter is set, and otherwise selects
\* by the auto-selection policy from the stored source reference.
C32_SetAdapterAssignsOrSelects ==
    [][(last'.op = "setAdapter")
        => /\ last'.arg # Str("null")
              => (adapter' = last'.arg.s /\ last'.outcome = "none")
           /\ (last'.arg = Str("null") /\ adapter # "null")
              => (adapter' = adapter /\ last'.outcome = "none")
           /\ (last'.arg = Str("null") /\ adapter = "null" /\ objectOrFileRef # Undef)
              => ( /\ adapter' = AdapterFor(Tree(heap, objectOrFileRef))
                   /\ last'.outcome = "none" )
           /\ Tree(heap', objectOrFileRef') = Tree(heap, objectOrFileRef)
           /\ currentConfigValue = Undef <=> currentConfigValue' = Undef
           /\ Loaded => SnapshotView' = SnapshotView
      ]_vars

\* an engine that loaded port 3001 from config.json, which only the adapter
\* selected for that path yields, has been given the custom adapter
C32_Witness ==
    /\ Loaded
    /\ last.op = "setAdapter"
    /\ last.arg = Str("custom")
    /\ adapter = "custom"
    /\ objectOrFileRef = Str(JsonPath)
    /\ SnapshotView.f["port"] = Num(3001)

\* C33: each adapter checks the shape of its source reference first: the
\* Object adapter fails with AdapterError for a reference that is not a
\* mapping and accepts a mapping; a file adapter fails with AdapterError for a
\* reference that is not a string, without reading; for a string a file
\* adapter fails with ReadError before any decoding, and with ParseError only
\* after it has read the file.
C33_AdaptersCheckShapeFirst ==
    [][/\ (last'.op \in {"loadSync", "load"} /\ EnvOverlay.ok)
          => /\ ( \/ adapter' = "object" /\ last'.arg.t # "obj"
                  \/ adapter' \in {"json", "yaml"} /\ last'.arg.t # "str" )
                => ( /\ last'.outcome = "AdapterError"
                     /\ last'.reads = <<>>
                     /\ last'.parses = <<>> )
             /\ (adapter' = "object" /\ last'.arg.t = "obj")
                => last'.outcome \notin {"AdapterError", "ReadError", "ParseError"}
       /\ (last'.op \in {"loadSync", "loadResumed", "tick"})
          => /\ last'.outcome = "ReadError"
                => ( /\ Len(last'.reads) = 1
                     /\ FileAt(last'.reads[1]).t = "nofile"
                     /\ last'.parses = <<>> )
             /\ last'.outcome = "ParseError"
                => ( /\ Len(last'.reads) = 1
                     /\ FileAt(last'.reads[1]).t = "text"
                     /\ last'.parses = last'.reads )
      ]_vars

\* the JSON adapter, selected by an earlier load, was given the caller's
\* object while config.json cannot be read: AdapterError, and nothing was read
C33_Witness ==
    /\ last.op = "loadSync"
    /\ last.arg.t = "obj"
    /\ adapter = "json"
    /\ last.outcome = "AdapterError"
    /\ last.reads = <<>>
    /\ fs[JsonPath] = NoFile

\* C34: a successful load in Loaded state invokes the listeners of every
\* field whose value in the new snapshot differs from its value in the prior
\* one, also of a field that was absent from the prior snapshot (an optional
\* field the source did not supply) and is present in the new one.
C34_AddedFieldIsReported ==
    [][(Loaded /\ last'.op = "loadSync" /\ last'.outcome = "none")
        => \A k \in Fields :
              (Prop(SnapshotView', k) # Prop(SnapshotView, k) /\ listenerMap[k] # <<>>)
                 => \E i \in 1..Len(calls') : calls'[i].key = k
      ]_vars

\* C35: addListener succeeds before the first load and registers the
\* listener; the first successful load invokes no listener, also not those
\* registered before it; a later successful load invokes the listeners of the
\* fields it changes.
C35_FirstLoadInvokesNoListener ==
    [][/\ (~Loaded /\ last'.op = "addListener")
          => ( /\ last'.outcome = "none"
               /\ listenerMap'[last'.key] = Append(listenerMap[last'.key], last'.arg.s)
               /\ ~Loaded' )
       /\ (~Loaded /\ last'.op \in {"loadSync", "loadResumed"}
                   /\ last'.outcome = "none")
          => (Loaded' /\ calls' = <<>> /\ listenerMap' = listenerMap)
       /\ (Loaded /\ last'.op \in {"loadSync", "loadResumed", "tick"}
                  /\ last'.outcome = "none")
          => \A k \in Fields :
                (SnapshotView'.f[k] # SnapshotView.f[k])
                   => \A i \in 1..Len(listenerMap[k]) :
                         \E j \in 1..Len(calls') :
                            /\ calls'[j].key = k
                            /\ calls'[j].listener = listenerMap[k][i]
      ]_vars

\* listeners on port and on db, a loadSync has installed port 3001 and
\* invoked nothing
C35_Witness ==
    /\ Loaded
    /\ last.op = "loadSync"
    /\ last.outcome = "none"
    /\ listenerMap["port"] = <<"l1">>
    /\ listenerMap["db"] = <<"l1">>
    /\ SnapshotView.f["port"] = Num(3001)
    /\ calls = <<>>

\* C36: whenever a load or loadSync call ends by raising an error to its
\* caller, whatever the reason (adapter, read, parse, validation or an
\* exception thrown by a listener), the current snapshot is the same as
\* before the call.
C36_RaisingLoadKeepsSnapshot ==
    [][(Loaded /\ last'.op \in {"loadSync", "loadResumed"}
               /\ last'.outcome \notin {"none", "pending"})
          => SnapshotView' = SnapshotView
      ]_vars

\* C37: a value written by set lasts until the next successful loadSync or
\* reload tick, which replaces the whole snapshot with the validated source
\* values; if the source holds a different value for the field, the field's
\* listeners are invoked with (source value, value written by set).
C37_LoadReplacesWrittenValue ==
    [][(Loaded /\ last.op = "set"
               /\ last'.op \in {"tick", "loadSync"} /\ last'.outcome = "none")
          => LET source == Tree(heap, IF last'.op = "tick" THEN objectOrFileRef
                                      ELSE configObject)
                 k == last.key
             IN  /\ SnapshotView.f[k] = last.arg
                 /\ SnapshotView' = source
                 /\ (source.f[k] # last.arg)
                       => SelectSeq(calls', LAMBDA c : c.key = k)
                             = SetCalls(k, source.f[k], last.arg)
      ]_vars

\* a tick has put port 3000 back in place of the NaN only set can have
\* written, and has told port's listener (3000, NaN)
C37_Witness ==
    /\ Loaded
    /\ last.op = "tick"
    /\ last.outcome = "none"
    /\ SnapshotView.f["port"] = Num(3000)
    /\ calls = <<[key |-> "port", listener |-> "l1",
                  new |-> Num(3000), old |-> NaN]>>

\* C38: in every reachable state in which the reload timer is active the
\* engine holds a stored source reference and a load method, so that a tick
\* can attempt a reload; startReloadInterval before any load leaves no active
\* timer whose ticks fail with NotLoaded.
C38_ActiveTimerCanReload ==
    (timers # <<>>) => (objectOrFileRef # Undef /\ loadMethod # "null")

\* C39: every reload tick reloads through the synchronous load path,
\* whichever of load or loadSync the caller used last: the load method the
\* engine records is never the asynchronous one, and a tick reads the source,
\* replaces the snapshot and ends within the one callback, suspending nothing.
C39_TickReloadsSynchronously ==
    [][/\ loadMethod' \in {"null", "loadSync"}
       /\ (last'.op = "tick")
          => ( /\ pending' = pending
               /\ last'.outcome # "pending"
               /\ (last'.outcome = "none")
                     => SnapshotView'
                          = compiledSchema(Spread(StoredRaw, EnvOverlay.v)).v )
      ]_vars

\* while a load of the JSON file is suspended, a tick has run to its end and
\* installed the port written to the file in the meantime
C39_Witness ==
    /\ last.op = "tick"
    /\ last.outcome = "none"
    /\ pending # <<>>
    /\ objectOrFileRef = Str(JsonPath)
    /\ loadMethod = "loadSync"
    /\ SnapshotView.f["port"] = Num(3001)

====
